---------------------------- MODULE Spec2Model ----------------------------
(***************************************************************************)
(* Seedream 4.0 Studio (src/app.py): a Streamlit script.  Streamlit runs   *)
(* the whole script once per user interaction; st.session_state survives   *)
(* between runs, everything else is rebuilt.  One action of the model is   *)
(* one complete run of the script, triggered by one widget event.          *)
(*                                                                         *)
(* Strings that the script takes apart (the URL text area) are sequences   *)
(* of one-character strings.  Python's None is the integer None below.     *)
(* The payload fields num_images, max_images and enable_safety_checker are *)
(* copied from sliders to the payload untouched and are left out.          *)
(***************************************************************************)
EXTENDS Integers, Sequences, FiniteSets, TLC

VARIABLES
    edit_width,     \* st.session_state.edit_width
    edit_height,    \* st.session_state.edit_height
    base_width,     \* st.session_state.base_width  (None while unset)
    base_height,    \* st.session_state.base_height (None while unset)
    cache,          \* st.cache_data store of get_image_resolution: {<<url, (w, h)>>}
    original,       \* history: (original_w, original_h) of the last successful Analyze
    run,            \* the button or widget that triggered the latest run
    inputs,         \* widget values read by the latest run
    probe,          \* latest run: the URL probed, what was fetched, what was returned
    outcome,        \* latest run: what the remote service did with the POST
    posts,          \* latest run: the requests.post calls issued, in order
    ui              \* latest run: elements rendered by the pressed button's handler

vars == <<edit_width, edit_height, base_width, base_height, cache, original,
          run, inputs, probe, outcome, posts, ui>>

session == <<edit_width, edit_height, base_width, base_height, cache, original>>

------------------------------------------------------------------------------
(* Program constants *)

None == -1

MinSize == 1024

MaxSize == 4096

DefaultWidth == 1920

DefaultHeight == 1080

TEXT_TO_IMAGE_URL == "https://fal.run/fal-ai/bytedance/seedream/v4/text-to-image"

IMAGE_EDIT_URL == "https://fal.run/fal-ai/bytedance/seedream/v4/edit"

image_size_map ==
    [l \in {"Square (1280x1280)", "Portrait (1024x1792)", "Landscape (1792x1024)"} |->
        CASE l = "Square (1280x1280)"    -> [width |-> 1280, height |-> 1280]
          [] l = "Portrait (1024x1792)"  -> [width |-> 1024, height |-> 1792]
          [] l = "Landscape (1792x1024)" -> [width |-> 1792, height |-> 1024]]

------------------------------------------------------------------------------
(* Bounds and input domains *)

MaxSeed == 2

Seeds == 0..MaxSeed

ApiKeys == {"", "user-key"}

SecretKeys == {"", "env-key"}

Prompts == {"", "a lion"}

\* Contents of the "Image URLs (one per line)" text area.
UrlTexts ==
    { <<>>,
      <<" ", "\n">>,
      <<"a">>,
      <<" ", "b", " ", "\n", "\n", "a", "\n">> }

\* Pixel sizes the images behind the URLs may decode to.
DetectedSizes == { <<800, 600>>, <<3000, 3000>>, <<1025, 5000>> }

\* Values typed into the Width / Height number inputs (min 1024, max 4096).
ManualSizes == {MinSize, MaxSize}

------------------------------------------------------------------------------
(* Python helpers *)

Min(a, b) == IF a < b THEN a ELSE b

Max(a, b) == IF a > b THEN a ELSE b

\* Truth value of an int-or-None.
Truthy(x) == x # None /\ x # 0

Whitespace == {" ", "\n", "\t"}

RECURSIVE LStrip(_)
LStrip(s) == IF s = <<>> \/ Head(s) \notin Whitespace THEN s ELSE LStrip(Tail(s))

RECURSIVE RStrip(_)
RStrip(s) ==
    IF s = <<>> \/ s[Len(s)] \notin Whitespace THEN s
    ELSE RStrip(SubSeq(s, 1, Len(s) - 1))

\* str.strip()
Strip(s) == RStrip(LStrip(s))

RECURSIVE FirstNewline(_, _)
FirstNewline(s, i) ==
    IF i > Len(s) THEN 0
    ELSE IF s[i] = "\n" THEN i ELSE FirstNewline(s, i + 1)

\* str.split('\n')
RECURSIVE SplitLines(_)
SplitLines(s) ==
    LET i == FirstNewline(s, 1)
    IN  IF i = 0 THEN <<s>>
        ELSE <<SubSeq(s, 1, i - 1)>> \o SplitLines(SubSeq(s, i + 1, Len(s)))

NonEmpty(s) == s # <<>>

\* [url.strip() for url in image_urls_text.strip().split('\n') if url.strip()]
ImageUrlsList(image_urls_text) ==
    LET lines == SplitLines(Strip(image_urls_text))
    IN  SelectSeq([i \in 1..Len(lines) |-> Strip(lines[i])], NonEmpty)

\* Fault: the lower bound is forgotten.
ClampUpperOnly(v) == Min(MaxSize, v)

\* max(1024, min(4096, v))
Clamp(v) == Max(MinSize, Min(MaxSize, v))

\* FAL_KEY = user_api_key or st.secrets.get("FAL_KEY", os.environ.get("FAL_KEY"))
FalKey(user_api_key, secret) == IF user_api_key # "" THEN user_api_key ELSE secret

\* The values FAL_KEY can take.
FalKeys == {FalKey(u, s) : u \in ApiKeys, s \in SecretKeys}

------------------------------------------------------------------------------
(* Rendered elements: [kind, text, num, str]; num and str carry the values *)
(* formatted into the text.                                                *)

Element(kind, text, num, str) == [kind |-> kind, text |-> text, num |-> num, str |-> str]

NoInputs ==
    [FAL_KEY |-> "", prompt |-> "", image_size_option |-> "",
     image_urls_text |-> <<>>, seed |-> 0, manual |-> 0]

------------------------------------------------------------------------------
(* Resolution prober *)

NoFetch == [exc |-> "not fetched", status |-> 0, decodes |-> FALSE, size |-> <<None, None>>]

\* What requests.get and Image.open can do for one URL.
FetchOutcomes ==
    { [exc |-> "MissingSchema", status |-> 0,   decodes |-> FALSE, size |-> <<None, None>>],
      [exc |-> "Timeout",       status |-> 0,   decodes |-> FALSE, size |-> <<None, None>>],
      [exc |-> "none",          status |-> 404, decodes |-> FALSE, size |-> <<None, None>>],
      [exc |-> "none",          status |-> 304, decodes |-> FALSE, size |-> <<None, None>>],
      [exc |-> "none",          status |-> 200, decodes |-> FALSE, size |-> <<None, None>>] }
    \cup
    { [exc |-> "none", status |-> 200, decodes |-> TRUE, size |-> s] : s \in DetectedSizes }

\* Response.raise_for_status(): raises HTTPError for 4xx and 5xx only.
RaisesForStatus(status) == 400 <= status /\ status < 600

\* The exception raised inside the try block of get_image_resolution, or "none".
FetchFailure(f) ==
    IF f.exc # "none" THEN f.exc
    ELSE IF RaisesForStatus(f.status) THEN "HTTPError"
    ELSE IF ~f.decodes THEN "UnidentifiedImageError"
    ELSE "none"

\* Fault: the except clause lets a decode error through.
GetImageResolutionNoCatchDecode(f) ==
    LET e == FetchFailure(f)
    IN  IF e = "none" THEN [raised |-> "none", value |-> f.size]
        ELSE IF e = "UnidentifiedImageError" THEN [raised |-> e, value |-> <<None, None>>]
        ELSE [raised |-> "none", value |-> <<None, None>>]

\* get_image_resolution(url), given what the fetch of url does.
GetImageResolution(f) ==
    IF FetchFailure(f) = "none" THEN [raised |-> "none", value |-> f.size]
    ELSE [raised |-> "none", value |-> <<None, None>>]

Cached(url) == \E e \in cache : e[1] = url

CachedValue(url) == (CHOOSE e \in cache : e[1] = url)[2]

NoProbe == [url |-> <<>>, fetched |-> NoFetch, raised |-> "none", value |-> <<None, None>>]

------------------------------------------------------------------------------
(* API client *)

NoOutcome == [exc |-> "no request", msg |-> "", status |-> 0, text |-> ""]

\* Response bodies that response.json() parses, with their parsed value.
JsonTexts ==
    { "{images:[{url:http://x/1.png}],seed:42}",
      "{images:[{url:http://x/1.png},{url:http://x/2.png}],seed:7}",
      "{images:[{url:http://x/1.png}]}",
      "{images:[],seed:42}",
      "{seed:42}" }

ParseJson(text) ==
    CASE text = "{images:[{url:http://x/1.png}],seed:42}" ->
            [images |-> <<[url |-> "http://x/1.png"]>>, seed |-> 42]
      [] text = "{images:[{url:http://x/1.png},{url:http://x/2.png}],seed:7}" ->
            [images |-> <<[url |-> "http://x/1.png"], [url |-> "http://x/2.png"]>>, seed |-> 7]
      [] text = "{images:[{url:http://x/1.png}]}" ->
            [images |-> <<[url |-> "http://x/1.png"]>>]
      [] text = "{images:[],seed:42}" ->
            [images |-> <<>>, seed |-> 42]
      [] text = "{seed:42}" ->
            [seed |-> 42]

\* What the network and the remote service can do with one POST.
PostOutcomes ==
    { [exc |-> "ConnectionError", msg |-> "connection refused", status |-> 0, text |-> ""],
      [exc |-> "Timeout",         msg |-> "read timed out",     status |-> 0, text |-> ""],
      [exc |-> "none", msg |-> "", status |-> 401, text |-> "invalid key"],
      [exc |-> "none", msg |-> "", status |-> 304, text |-> ""],
      [exc |-> "none", msg |-> "", status |-> 200, text |-> "<html>"] }
    \cup
    { [exc |-> "none", msg |-> "", status |-> 200, text |-> t] : t \in JsonTexts }

NoJson == [none |-> TRUE]

Raised(exc, msg, o) ==
    [raised |-> exc, msg |-> msg, status |-> o.status, text |-> o.text,
     value |-> NoJson, calls |-> 1]

\* Fault: a failed POST is sent a second time.
MakeApiRequestRetry(o) ==
    IF o.exc # "none" THEN [Raised(o.exc, o.msg, o) EXCEPT !.calls = 2]
    ELSE IF RaisesForStatus(o.status) THEN [Raised("HTTPError", "", o) EXCEPT !.calls = 2]
    ELSE IF o.text \notin JsonTexts THEN Raised("JSONDecodeError", "Expecting value", o)
    ELSE [raised |-> "none", msg |-> "", status |-> o.status, text |-> o.text,
          value |-> ParseJson(o.text), calls |-> 1]

\* make_api_request(url, payload, api_key), given what the POST does:
\* the exception it raises or the value it returns, and the POSTs it issued.
MakeApiRequest(o) ==
    IF o.exc # "none" THEN Raised(o.exc, o.msg, o)
    ELSE IF RaisesForStatus(o.status) THEN Raised("HTTPError", "", o)
    ELSE IF o.text \notin JsonTexts THEN Raised("JSONDecodeError", "Expecting value", o)
    ELSE [raised |-> "none", msg |-> "", status |-> o.status, text |-> o.text,
          value |-> ParseJson(o.text), calls |-> 1]

\* The requests.post calls of one make_api_request call.
PostCalls(r, url, payload, api_key) ==
    [i \in 1..r.calls |-> [url |-> url, json |-> payload, api_key |-> api_key]]

\* Fault: the seed is sent even when it is 0.
WithSeedAlways(payload, seed) == payload @@ [seed |-> seed]

\* if seed > 0: payload["seed"] = seed
WithSeed(payload, seed) ==
    IF seed > 0 THEN payload @@ [seed |-> seed] ELSE payload

\* Fault: the HTTPError clause is missing.
ExceptHandlersGenericOnly(r) ==
    <<Element("error", "An unexpected error occurred", <<>>, <<r.msg>>)>>

\* except requests.exceptions.HTTPError / except Exception
ExceptHandlers(r) ==
    IF r.raised = "HTTPError"
    THEN <<Element("error", "API Request Failed", <<r.status>>, <<r.text>>)>>
    ELSE <<Element("error", "An unexpected error occurred", <<>>, <<r.msg>>)>>

\* result.get('seed', 'N/A')
SeedUsed(result) ==
    IF "seed" \in DOMAIN result
    THEN Element("info", "Seed used", <<result.seed>>, <<>>)
    ELSE Element("info", "Seed used", <<>>, <<"N/A">>)

\* Fault: only the first image is shown.
RenderResultFirstOnly(r, successText, caption, warningText) ==
    LET result == r.value
    IN  IF "images" \in DOMAIN result /\ result.images # <<>>
        THEN <<Element("success", successText, <<Len(result.images)>>, <<>>),
               SeedUsed(result),
               Element("image", caption, <<1>>, <<result.images[1].url>>)>>
        ELSE <<Element("warning", warningText, <<>>, <<>>),
               Element("json", "", <<>>, <<r.text>>)>>

\* The rendering of a returned result (both tabs; the texts differ).
RenderResult(r, successText, caption, warningText) ==
    LET result == r.value
    IN  IF "images" \in DOMAIN result /\ result.images # <<>>
        THEN <<Element("success", successText, <<Len(result.images)>>, <<>>),
               SeedUsed(result)>>
             \o [i \in 1..Len(result.images) |->
                    Element("image", caption, <<i>>, <<result.images[i].url>>)]
        ELSE <<Element("warning", warningText, <<>>, <<>>),
               Element("json", "", <<>>, <<r.text>>)>>

\* try: result = make_api_request(...); render  except ...: st.error
RequestAndRender(r, successText, caption, warningText) ==
    IF r.raised = "none" THEN RenderResult(r, successText, caption, warningText)
    ELSE ExceptHandlers(r)

------------------------------------------------------------------------------
Init ==
    /\ edit_width = DefaultWidth
    /\ edit_height = DefaultHeight
    /\ base_width = None
    /\ base_height = None
    /\ cache = {}
    /\ original = <<None, None>>
    /\ run = "load"
    /\ inputs = NoInputs
    /\ probe = NoProbe
    /\ outcome = NoOutcome
    /\ posts = <<>>
    /\ ui = <<>>

\* Lines 204-205, executed by every run of the script.
ClampSession(w, h) ==
    /\ edit_width' = Clamp(w)
    /\ edit_height' = Clamp(h)

\* int(base * 1.5), capped at 4096
Scale15(b) == Min(MaxSize, (b * 3) \div 2)

\* Fault: the 2x button scales by 1.5.
Scale2AsScale15(b) == Scale15(b)

\* int(base * 2), capped at 4096
Scale2(b) == Min(MaxSize, b * 2)

\* "Analyze & Set Resolution from First URL" with an empty URL list.
AnalyzeNoUrl(text) ==
    /\ ImageUrlsList(text) = <<>>
    /\ run' = "Analyze"
    /\ inputs' = [NoInputs EXCEPT !.image_urls_text = text]
    /\ probe' = NoProbe
    /\ ui' = <<Element("warning", "Please enter at least one URL.", <<>>, <<>>)>>
    /\ ClampSession(edit_width, edit_height)
    /\ outcome' = NoOutcome
    /\ posts' = <<>>
    /\ UNCHANGED <<base_width, base_height, cache, original>>

\* Fault: a failed probe resets the size to the default and only warns.
AnalyzeFailedResetsSize ==
    /\ ui' = <<Element("warning", "Could not get resolution.", <<>>, <<>>)>>
    /\ ClampSession(DefaultWidth, DefaultHeight)
    /\ UNCHANGED <<base_width, base_height, original>>

\* Analyze when (w, h) is falsy: st.error, session state untouched.
AnalyzeFailed ==
    /\ ui' = <<Element("error", "Could not get resolution.", <<>>, <<>>)>>
    /\ ClampSession(edit_width, edit_height)
    /\ UNCHANGED <<base_width, base_height, original>>

\* The handler's body once get_image_resolution has answered res.
AnalyzeWith(text, url, fetched, res) ==
    LET w == res.value[1]
        h == res.value[2]
        final_w == Clamp(w)
        final_h == Clamp(h)
    IN  /\ run' = "Analyze"
        /\ inputs' = [NoInputs EXCEPT !.image_urls_text = text]
        /\ probe' = [url |-> url, fetched |-> fetched,
                     raised |-> res.raised, value |-> res.value]
        /\ outcome' = NoOutcome
        /\ posts' = <<>>
        /\ IF res.raised # "none"
           THEN \* an exception leaving the script ends the run
                /\ ui' = <<Element("exception", res.raised, <<>>, <<>>)>>
                /\ UNCHANGED session
           ELSE /\ cache' = cache \cup {<<url, res.value>>}
                /\ IF Truthy(w) /\ Truthy(h)
                   THEN /\ base_width' = final_w
                        /\ base_height' = final_h
                        /\ original' = <<w, h>>
                        /\ ClampSession(final_w, final_h)
                        /\ ui' = <<Element("success", "Detected / Set to",
                                           <<w, h, final_w, final_h>>, <<>>)>>
                                 \o IF final_w # w \/ final_h # h
                                    THEN <<Element("warning",
                                                   "Input resolution was adjusted",
                                                   <<>>, <<>>)>>
                                    ELSE <<>>
                   ELSE AnalyzeFailed

\* Analyze, the first URL already in the st.cache_data store.
AnalyzeCached(text) ==
    /\ ImageUrlsList(text) # <<>>
    /\ Cached(ImageUrlsList(text)[1])
    /\ AnalyzeWith(text, ImageUrlsList(text)[1], NoFetch,
                   [raised |-> "none", value |-> CachedValue(ImageUrlsList(text)[1])])

\* Analyze, the first URL fetched and decoded now.
AnalyzeFetch(text, f) ==
    /\ ImageUrlsList(text) # <<>>
    /\ ~Cached(ImageUrlsList(text)[1])
    /\ AnalyzeWith(text, ImageUrlsList(text)[1], f, GetImageResolution(f))

\* A run that presses one of the three scale buttons.
ScaleRun(name, w, h) ==
    /\ base_width # None
    /\ run' = name
    /\ inputs' = NoInputs
    /\ probe' = NoProbe
    /\ ui' = <<>>
    /\ ClampSession(w, h)
    /\ outcome' = NoOutcome
    /\ posts' = <<>>
    /\ UNCHANGED <<base_width, base_height, cache, original>>

Scale1x == ScaleRun("1x Scale", base_width, base_height)

Scale15x == ScaleRun("1.5x Scale", Scale15(base_width), Scale15(base_height))

Scale2x == ScaleRun("2x Scale", Scale2(base_width), Scale2(base_height))

\* A run triggered by typing v into the Width number input.
SetWidth(v) ==
    /\ run' = "Width"
    /\ inputs' = [NoInputs EXCEPT !.manual = v]
    /\ probe' = NoProbe
    /\ ui' = <<>>
    /\ ClampSession(v, edit_height)
    /\ outcome' = NoOutcome
    /\ posts' = <<>>
    /\ UNCHANGED <<base_width, base_height, cache, original>>

\* A run triggered by typing v into the Height number input.
SetHeight(v) ==
    /\ run' = "Height"
    /\ inputs' = [NoInputs EXCEPT !.manual = v]
    /\ probe' = NoProbe
    /\ ui' = <<>>
    /\ ClampSession(edit_width, v)
    /\ outcome' = NoOutcome
    /\ posts' = <<>>
    /\ UNCHANGED <<base_width, base_height, cache, original>>

\* "Generate Image(s)" (tab 1).
Generate(FAL_KEY, prompt_t2i, image_size_option_t2i, seed_t2i, o) ==
    LET payload == WithSeed([prompt |-> prompt_t2i,
                             image_size |-> image_size_map[image_size_option_t2i]],
                            seed_t2i)
        r == MakeApiRequest(o)
    IN  /\ run' = "Generate"
        /\ inputs' = [NoInputs EXCEPT !.FAL_KEY = FAL_KEY, !.prompt = prompt_t2i,
                                      !.image_size_option = image_size_option_t2i,
                                      !.seed = seed_t2i]
        /\ probe' = NoProbe
        /\ ClampSession(edit_width, edit_height)
        /\ UNCHANGED <<base_width, base_height, cache, original>>
        /\ IF FAL_KEY = ""
           THEN /\ ui' = <<Element("error", "Fal AI API Key is missing.", <<>>, <<>>)>>
                /\ posts' = <<>>
                /\ outcome' = NoOutcome
           ELSE IF prompt_t2i = ""
           THEN /\ ui' = <<Element("warning", "Please enter a prompt", <<>>, <<>>)>>
                /\ posts' = <<>>
                /\ outcome' = NoOutcome
           ELSE /\ outcome' = o
                /\ posts' = PostCalls(r, TEXT_TO_IMAGE_URL, payload, FAL_KEY)
                /\ ui' = RequestAndRender(r, "Successfully generated", "Generated Image",
                                          "The API did not return any images.")

\* st.image of every input URL, shown before the request is made.
InputImages(image_urls_list) ==
    <<Element("subheader", "Your Input Image(s)", <<>>, <<>>)>>
    \o [i \in 1..Len(image_urls_list) |->
           Element("image", "Input", <<i>>, <<image_urls_list[i]>>)]

\* Fault: 'and' in place of 'or'.
MissingInputEditBoth(prompt_edit, image_urls_list) ==
    prompt_edit = "" /\ image_urls_list = <<>>

\* elif not prompt_edit or not image_urls_list
MissingInputEdit(prompt_edit, image_urls_list) ==
    prompt_edit = "" \/ image_urls_list = <<>>

\* "Edit Image(s)" (tab 2).
Edit(FAL_KEY, prompt_edit, image_urls_text, seed_edit, o) ==
    LET image_urls_list == ImageUrlsList(image_urls_text)
        payload == WithSeed([prompt |-> prompt_edit,
                             image_urls |-> image_urls_list,
                             image_size |-> [width |-> Clamp(edit_width),
                                             height |-> Clamp(edit_height)]],
                            seed_edit)
        r == MakeApiRequest(o)
    IN  /\ run' = "Edit"
        /\ inputs' = [NoInputs EXCEPT !.FAL_KEY = FAL_KEY, !.prompt = prompt_edit,
                                      !.image_urls_text = image_urls_text,
                                      !.seed = seed_edit]
        /\ probe' = NoProbe
        /\ ClampSession(edit_width, edit_height)
        /\ UNCHANGED <<base_width, base_height, cache, original>>
        /\ IF FAL_KEY = ""
           THEN /\ ui' = <<Element("error", "Fal AI API Key is missing.", <<>>, <<>>)>>
                /\ posts' = <<>>
                /\ outcome' = NoOutcome
           ELSE IF MissingInputEdit(prompt_edit, image_urls_list)
           THEN /\ ui' = <<Element("warning",
                                   "Please provide editing instructions and at least one image URL.",
                                   <<>>, <<>>)>>
                /\ posts' = <<>>
                /\ outcome' = NoOutcome
           ELSE /\ outcome' = o
                /\ posts' = PostCalls(r, IMAGE_EDIT_URL, payload, FAL_KEY)
                /\ ui' = InputImages(image_urls_list)
                         \o (IF r.raised = "none"
                             THEN <<Element("subheader", "Your Edited Result(s)", <<>>, <<>>)>>
                             ELSE <<>>)
                         \o RequestAndRender(r, "Successfully edited and generated",
                                             "Edited Image",
                                             "The API did not return any edited images.")

\* Every run of the script, with every input.
Next ==
    \/ \E text \in UrlTexts : AnalyzeNoUrl(text)
    \/ \E text \in UrlTexts : AnalyzeCached(text)
    \/ \E text \in UrlTexts, f \in FetchOutcomes : AnalyzeFetch(text, f)
    \/ Scale1x
    \/ Scale15x
    \/ Scale2x
    \/ \E v \in ManualSizes : SetWidth(v)
    \/ \E v \in ManualSizes : SetHeight(v)
    \/ \E k \in FalKeys, p \in Prompts,
          l \in DOMAIN image_size_map, seed \in Seeds, o \in PostOutcomes :
            Generate(k, p, l, seed, o)
    \/ \E k \in FalKeys, p \in Prompts,
          text \in UrlTexts, seed \in Seeds, o \in PostOutcomes :
            Edit(k, p, text, seed, o)

Spec == Init /\ [][Next]_vars

(***************************************************************************)
(* The reachable states of Spec are the product of the session state and   *)
(* the latest request; the two factors are checked separately.             *)
(*                                                                         *)
(* SpecSizes: every action on the output resolution, with every input;     *)
(* Generate and Edit are pressed with a key and a prompt present, and the  *)
(* service answers with one image.                                         *)
(***************************************************************************)
OneImage ==
    [exc |-> "none", msg |-> "", status |-> 200,
     text |-> "{images:[{url:http://x/1.png}],seed:42}"]

NextSizes ==
    \/ \E text \in UrlTexts : AnalyzeNoUrl(text)
    \/ \E text \in UrlTexts : AnalyzeCached(text)
    \/ \E text \in UrlTexts, f \in FetchOutcomes : AnalyzeFetch(text, f)
    \/ Scale1x
    \/ Scale15x
    \/ Scale2x
    \/ \E v \in ManualSizes : SetWidth(v)
    \/ \E v \in ManualSizes : SetHeight(v)
    \/ \E l \in DOMAIN image_size_map : Generate("user-key", "a lion", l, 0, OneImage)
    \/ \E text \in UrlTexts : Edit("user-key", "a lion", text, 0, OneImage)

SpecSizes == Init /\ [][NextSizes]_vars

(***************************************************************************)
(* SpecRequests: Generate and Edit with every key, prompt, URL text, seed  *)
(* and answer of the service; the output resolution is changed by hand     *)
(* only.                                                                   *)
(***************************************************************************)
NextRequests ==
    \/ \E v \in ManualSizes : SetWidth(v)
    \/ \E v \in ManualSizes : SetHeight(v)
    \/ \E k \in FalKeys, p \in Prompts,
          l \in DOMAIN image_size_map, seed \in Seeds, o \in PostOutcomes :
            Generate(k, p, l, seed, o)
    \/ \E k \in FalKeys, p \in Prompts,
          text \in UrlTexts, seed \in Seeds, o \in PostOutcomes :
            Edit(k, p, text, seed, o)

SpecRequests == Init /\ [][NextRequests]_vars

------------------------------------------------------------------------------
(* Vocabulary of the properties *)

InRange(v) == MinSize <= v /\ v <= MaxSize

RequestRun == run \in {"Generate", "Edit"}

ScaleRuns == {"1x Scale", "1.5x Scale", "2x Scale"}

HasKind(kind) == \E i \in 1..Len(ui) : ui[i].kind = kind

\* Analyze ran with a URL and get_image_resolution returned a falsy pair.
ProbeUnknown ==
    /\ run = "Analyze"
    /\ probe.url # <<>>
    /\ probe.raised = "none"
    /\ ~(Truthy(probe.value[1]) /\ Truthy(probe.value[2]))

\* Analyze ran with a URL and get_image_resolution returned a size.
ProbeKnown ==
    /\ run = "Analyze"
    /\ probe.url # <<>>
    /\ probe.raised = "none"
    /\ Truthy(probe.value[1]) /\ Truthy(probe.value[2])

\* The classes of failure of a POST, read off what the service did.
TransportFailure == outcome.exc \in {"ConnectionError", "Timeout"}

HttpFailure == outcome.exc = "none" /\ outcome.status >= 400 /\ outcome.status <= 599

Non2xx == outcome.exc = "none" /\ ~(outcome.status >= 200 /\ outcome.status <= 299)

OtherFailure ==
    /\ outcome.exc = "none"
    /\ ~HttpFailure
    /\ outcome.text \notin JsonTexts

PostFailed == posts # <<>> /\ (TransportFailure \/ HttpFailure \/ OtherFailure)

PostSucceeded == posts # <<>> /\ ~PostFailed

IsError(e) == e.kind = "error"

Errors == SelectSeq(ui, IsError)

IsOutputImage(e) == e.kind = "image" /\ e.text \in {"Generated Image", "Edited Image"}

OutputImages == SelectSeq(ui, IsOutputImage)

IsSeedInfo(e) == e.kind = "info" /\ e.text = "Seed used"

SeedInfos == SelectSeq(ui, IsSeedInfo)

------------------------------------------------------------------------------
(* C1: every request that is sent carries an image_size whose width and    *)
(* height lie in [1024, 4096], whatever Analyze, scale and manual actions  *)
(* came before and whatever size label is chosen; a detected size outside  *)
(* the range is clamped and accepted, not rejected.                        *)
C1_SizeInRange ==
    /\ \A i \in 1..Len(posts) :
          /\ InRange(posts[i].json.image_size.width)
          /\ InRange(posts[i].json.image_size.height)
    /\ InRange(edit_width) /\ InRange(edit_height)
    /\ ProbeKnown =>
          /\ edit_width = Clamp(probe.value[1])
          /\ edit_height = Clamp(probe.value[2])
          /\ HasKind("success") /\ ~HasKind("error")

C1_Witness ==
    /\ run = "Edit" /\ posts # <<>>
    /\ original = <<1025, 5000>>
    /\ posts[1].json.image_size = [width |-> 2050, height |-> 4096]

(* C2 as stated: the output size is the detected size times the scale      *)
(* factor, clamped afterwards; detected (800, 600) at 2x gives (1600, 1200). *)
C2_ScaleThenClamp ==
    (run \in ScaleRuns /\ Truthy(original[1])) =>
        LET target(d) == CASE run = "1x Scale"   -> d
                           [] run = "1.5x Scale" -> (d * 3) \div 2
                           [] run = "2x Scale"   -> d * 2
        IN  /\ edit_width = Clamp(target(original[1]))
            /\ edit_height = Clamp(target(original[2]))

(* C2 amended: the detected size is clamped to [1024, 4096] first and kept *)
(* as the base size; a scale button multiplies the base by 1, 1.5 or 2 and *)
(* the product is clamped again, each dimension on its own; detected       *)
(* (800, 600) at 2x gives (2048, 2048).                                    *)
C2_ClampScaleClamp ==
    /\ (run \in ScaleRuns /\ Truthy(original[1])) =>
          LET target(d) == CASE run = "1x Scale"   -> Clamp(d)
                             [] run = "1.5x Scale" -> (Clamp(d) * 3) \div 2
                             [] run = "2x Scale"   -> Clamp(d) * 2
          IN  /\ edit_width = Clamp(target(original[1]))
              /\ edit_height = Clamp(target(original[2]))
    /\ (run = "2x Scale" /\ original = <<800, 600>>) =>
          (edit_width = 2048 /\ edit_height = 2048)

C2_Witness ==
    /\ run = "2x Scale"
    /\ original = <<800, 600>>
    /\ edit_width = 2048 /\ edit_height = 2048

(* C3: whenever clamping to [1024, 4096] alters the requested output size, *)
(* a warning is shown: at Analyze when the detected size is out of range,  *)
(* and at a scale button when base times factor is out of range (detected  *)
(* (3000, 3000) at 2x: target 6000, output 4096, warning).                 *)
C3_ClampWarns ==
    /\ (ProbeKnown /\ (edit_width # probe.value[1] \/ edit_height # probe.value[2]))
          => HasKind("warning")
    /\ (run = "2x Scale" /\ (base_width * 2 # edit_width \/ base_height * 2 # edit_height))
          => HasKind("warning")
    /\ (run = "1.5x Scale" /\ ((base_width * 3) \div 2 # edit_width
                               \/ (base_height * 3) \div 2 # edit_height))
          => HasKind("warning")

(* C4: in both tabs the payload has no seed field when the seed input is   *)
(* 0 (or less), and a seed field equal to the input when it is positive.   *)
C4_SeedRule ==
    \A i \in 1..Len(posts) :
        /\ inputs.seed <= 0 => "seed" \notin DOMAIN posts[i].json
        /\ inputs.seed > 0 =>
              ("seed" \in DOMAIN posts[i].json /\ posts[i].json.seed = inputs.seed)

C4_Witness ==
    /\ run = "Generate" /\ posts # <<>>
    /\ inputs.seed = 0
    /\ "seed" \notin DOMAIN posts[1].json

(* C5: with the key missing, the prompt empty or (Edit) no source URL, the *)
(* run shows one blocking message and makes no network call; every edit    *)
(* request sent has a non-empty image_urls list and a non-empty prompt.    *)
C5_GuardsBlock ==
    /\ (RequestRun /\ (\/ inputs.FAL_KEY = ""
                       \/ inputs.prompt = ""
                       \/ (run = "Edit" /\ ImageUrlsList(inputs.image_urls_text) = <<>>)))
          => /\ posts = <<>>
             /\ probe = NoProbe
             /\ Len(ui) = 1
             /\ ui[1].kind \in {"error", "warning"}
    /\ \A i \in 1..Len(posts) :
          posts[i].url = IMAGE_EDIT_URL =>
              /\ posts[i].json.image_urls # <<>>
              /\ \A j \in 1..Len(posts[i].json.image_urls) :
                    posts[i].json.image_urls[j] # <<>>
              /\ posts[i].json.prompt # ""

C5_Witness ==
    /\ run = "Edit"
    /\ inputs.FAL_KEY # "" /\ inputs.prompt # ""
    /\ ImageUrlsList(inputs.image_urls_text) = <<>>
    /\ inputs.image_urls_text # <<>>
    /\ posts = <<>>
    /\ ui[1].kind = "warning"

(* C6: a parsed response with a non-empty images list shows exactly its    *)
(* images, in order, each with its index, and reports the response's seed; *)
(* with images empty or absent it shows a warning and the raw response;    *)
(* in neither case an error.                                               *)
C6_Render ==
    PostSucceeded =>
        LET result == ParseJson(outcome.text)
        IN  IF "images" \in DOMAIN result /\ result.images # <<>>
            THEN /\ Len(OutputImages) = Len(result.images)
                 /\ \A i \in 1..Len(result.images) :
                       /\ OutputImages[i].str = <<result.images[i].url>>
                       /\ OutputImages[i].num = <<i>>
                 /\ HasKind("success")
                 /\ Len(SeedInfos) = 1
                 /\ "seed" \in DOMAIN result => SeedInfos[1].num = <<result.seed>>
                 /\ ~HasKind("error") /\ ~HasKind("warning")
            ELSE /\ OutputImages = <<>>
                 /\ HasKind("warning")
                 /\ \E i \in 1..Len(ui) : ui[i].kind = "json" /\ ui[i].str = <<outcome.text>>
                 /\ ~HasKind("error")

C6_Witness ==
    /\ run = "Edit" /\ PostSucceeded
    /\ Len(ParseJson(outcome.text).images) = 2
    /\ Len(OutputImages) = 2
    /\ SeedInfos[1].num = <<7>>

(* C7 as stated: three distinct kinds of report: a non-2xx status gives    *)
(* the HTTP error with status and body, a network failure a transport      *)
(* error, anything else the generic error.                                 *)
C7_ThreeKinds ==
    PostFailed =>
        /\ Len(Errors) = 1
        /\ Non2xx => /\ Errors[1].text = "API Request Failed"
                     /\ Errors[1].num = <<outcome.status>>
                     /\ Errors[1].str = <<outcome.text>>
        /\ TransportFailure => Errors[1].text \notin {"API Request Failed",
                                                      "An unexpected error occurred"}
        /\ (OtherFailure /\ ~Non2xx) => Errors[1].text = "An unexpected error occurred"

(* C7 amended: two kinds of report: a 4xx or 5xx status gives "API Request *)
(* Failed" with the status code and the response body; every other failure *)
(* (network failure, timeout, a body that is not JSON, a 3xx answer) gives *)
(* "An unexpected error occurred" with the exception's message.            *)
C7_TwoKinds ==
    PostFailed =>
        /\ Len(Errors) = 1
        /\ HttpFailure => /\ Errors[1].text = "API Request Failed"
                          /\ Errors[1].num = <<outcome.status>>
                          /\ Errors[1].str = <<outcome.text>>
        /\ TransportFailure => /\ Errors[1].text = "An unexpected error occurred"
                               /\ Errors[1].str = <<outcome.msg>>
        /\ OtherFailure => Errors[1].text = "An unexpected error occurred"

C7_Witness ==
    /\ run = "Generate" /\ PostFailed
    /\ outcome.status = 401
    /\ Errors = <<Element("error", "API Request Failed", <<401>>, <<"invalid key">>)>>

(* C8 as stated: when probing fails the output size falls back to          *)
(* 1920x1080 and a warning, not an error, is shown.                        *)
C8_FallbackToDefault ==
    ProbeUnknown =>
        /\ edit_width = DefaultWidth /\ edit_height = DefaultHeight
        /\ HasKind("warning") /\ ~HasKind("error")

(* C8 amended: when probing fails the Analyze handler shows the error      *)
(* "Could not get resolution." and leaves the output size and the base     *)
(* size as the earlier actions of the session set them (1920x1080 only if  *)
(* nothing changed it before).                                             *)
C8_FailureKeepsSize ==
    [][ProbeUnknown' =>
          /\ edit_width' = edit_width /\ edit_height' = edit_height
          /\ base_width' = base_width /\ base_height' = base_height
          /\ ui' = <<Element("error", "Could not get resolution.", <<>>, <<>>)>>]_vars

C8_Witness ==
    /\ ProbeUnknown
    /\ base_width = 3000
    /\ edit_width = MaxSize /\ edit_height = MinSize

(* C9: get_image_resolution never raises: when the fetch fails (bad URL,   *)
(* timeout, non-2xx) or the bytes do not decode it returns (None, None),   *)
(* otherwise the decoded (width, height).                                  *)
C9_ProbeNeverRaises ==
    (run = "Analyze" /\ probe.fetched # NoFetch) =>
        LET f == probe.fetched
            failed == \/ f.exc # "none"
                      \/ ~(f.status >= 200 /\ f.status <= 299)
                      \/ ~f.decodes
        IN  /\ probe.raised = "none"
            /\ failed => probe.value = <<None, None>>
            /\ ~failed => probe.value = f.size /\ f.size \in DetectedSizes

C9_Witness ==
    /\ run = "Analyze"
    /\ probe.fetched.exc = "none" /\ probe.fetched.status = 200 /\ ~probe.fetched.decodes
    /\ probe.raised = "none"
    /\ probe.value = <<None, None>>

(* C10: a run issues at most one POST, only a press of Generate or Edit    *)
(* issues one, and a POST that fails is not repeated: the run ends with    *)
(* one POST made and an error shown.                                       *)
C10_OnePostNoRetry ==
    /\ Len(posts) <= 1
    /\ posts # <<>> => RequestRun
    /\ PostFailed => (Len(posts) = 1 /\ Len(Errors) = 1 /\ IsError(ui[Len(ui)]))

C10_Witness ==
    /\ run = "Edit" /\ PostFailed
    /\ outcome.exc = "Timeout"
    /\ Len(posts) = 1
    /\ IsError(ui[Len(ui)])

==============================================================================
